---- MODULE Spec2Model ----
(***************************************************************************)
(* HDFS3DataSet (kedro/io/hdf_s3.py): a versioned dataset that keeps one   *)
(* table, under one key, in an HDF image stored as an object in S3.        *)
(*                                                                         *)
(* Strings the code takes apart (file paths, keys) are sequences of        *)
(* one-character strings.  The remote store is a map from the versions of  *)
(* the dataset's file path to the object stored there.                     *)
(***************************************************************************)
EXTENDS Integers, Sequences, FiniteSets, TLC

\* ------------------------------------------------------------ bounds
\* Version identifiers are 1..MaxVersion; generated ones come from a clock.
MaxVersion == 3

\* ------------------------------------------------------------ values
\* Python's None, for a value that is a record elsewhere.
None == [type |-> "None"]

\* Version(load, save): a component that is absent is NoVersion.
NoVersion == 0

VersionIds == 1..MaxVersion

\* ------------------------------------------------------------ strings
SLASH == "/"

\* The protocol prefix S3FileSystem._strip_protocol removes.
S3_PROTOCOL == <<"s", "3", ":", "/", "/">>

StartsWith(s, p) ==
  /\ Len(s) >= Len(p)
  /\ SubSeq(s, 1, Len(p)) = p

\* str.rstrip("/")
RECURSIVE RStripSlash(_)
RStripSlash(s) ==
  IF s # <<>> /\ s[Len(s)] = SLASH
  THEN RStripSlash(SubSeq(s, 1, Len(s) - 1))
  ELSE s

\* S3FileSystem._strip_protocol(filepath): the "s3://" prefix and any
\* trailing separators are removed.
StripProtocol(path) ==
  LET p == RStripSlash(path)
  IN IF StartsWith(p, S3_PROTOCOL)
     THEN SubSeq(p, Len(S3_PROTOCOL) + 1, Len(p))
     ELSE p

\* "{}/{}".format(bucket_name, path)
FormatBucketPath(bucket_name, path) == bucket_name \o <<SLASH>> \o path

\* str.split("/"): the components between separators, empty ones included.
RECURSIVE SplitSlash(_, _)
SplitSlash(s, cur) ==
  IF s = <<>> THEN <<cur>>
  ELSE IF Head(s) = SLASH
       THEN <<cur>> \o SplitSlash(Tail(s), <<>>)
       ELSE SplitSlash(Tail(s), Append(cur, Head(s)))

\* "/".join(parts)
RECURSIVE JoinSlash(_)
JoinSlash(parts) ==
  IF parts = <<>> THEN <<>>
  ELSE IF Len(parts) = 1 THEN parts[1]
       ELSE parts[1] \o <<SLASH>> \o JoinSlash(Tail(parts))

\* The components PurePosixPath keeps: not the empty ones, not ".".
RECURSIVE KeepParts(_)
KeepParts(parts) ==
  IF parts = <<>> THEN <<>>
  ELSE IF Head(parts) = <<>> \/ Head(parts) = <<".">>
       THEN KeepParts(Tail(parts))
       ELSE <<Head(parts)>> \o KeepParts(Tail(parts))

\* The root PurePosixPath keeps: "//" for exactly two leading separators,
\* "/" for one or for three and more, none for a relative path.
PosixRoot(s) ==
  IF StartsWith(s, <<SLASH, SLASH>>) /\ ~StartsWith(s, <<SLASH, SLASH, SLASH>>)
  THEN <<SLASH, SLASH>>
  ELSE IF StartsWith(s, <<SLASH>>) THEN <<SLASH>> ELSE <<>>

\* str(PurePosixPath(s)): repeated separators collapsed, "." components and
\* trailing separators dropped; the empty path is ".".
PurePosixPath(s) ==
  LET body == PosixRoot(s) \o JoinSlash(KeepParts(SplitSlash(s, <<>>)))
  IN IF body = <<>> THEN <<".">> ELSE body

\* A faulty variant of key_with_slash: the key is looked up as it was given.
key_with_slash_Raw(key) == key

\* _exists: self._key if self._key.startswith("/") else "/" + self._key
key_with_slash(key) ==
  IF StartsWith(key, <<SLASH>>) THEN key ELSE <<SLASH>> \o key

\* ------------------------------------------------------------ options
DEFAULT_LOAD_ARGS == [o \in {} |-> 0]
DEFAULT_SAVE_ARGS == [o \in {} |-> 0]

\* dict.update: the entries of `user` override those of `defaults`.
DictUpdate(defaults, user) ==
  [o \in DOMAIN defaults \cup DOMAIN user |->
     IF o \in DOMAIN user THEN user[o] ELSE defaults[o]]

\* copy.deepcopy(x) or {}
OrEmpty(x) == IF x = None THEN [type |-> "dict", items |-> <<>>] ELSE x

\* ------------------------------------------------------------ construction
\* A faulty variant of __init__: the bucket name is not prefixed.
Construct_NoBucket(a) ==
  [ filepath  |-> PurePosixPath(StripProtocol(a.filepath)),
    key       |-> a.key,
    load_args |-> IF a.load_args # None
                  THEN DictUpdate(DEFAULT_LOAD_ARGS, a.load_args.items)
                  ELSE DEFAULT_LOAD_ARGS,
    save_args |-> IF a.save_args # None
                  THEN DictUpdate(DEFAULT_SAVE_ARGS, a.save_args.items)
                  ELSE DEFAULT_SAVE_ARGS,
    version   |-> a.version,
    s3        |-> [client_kwargs |-> OrEmpty(a.credentials),
                   s3fs_args     |-> OrEmpty(a.s3fs_args)] ]

\* HDFS3DataSet.__init__, called with the arguments `a`: the fields the
\* object holds afterwards.
Construct(a) ==
  LET path == StripProtocol(a.filepath)
  IN [ filepath  |-> PurePosixPath(IF a.bucket_name # <<>>
                                   THEN FormatBucketPath(a.bucket_name, path)
                                   ELSE path),
       key       |-> a.key,
       load_args |-> IF a.load_args # None
                     THEN DictUpdate(DEFAULT_LOAD_ARGS, a.load_args.items)
                     ELSE DEFAULT_LOAD_ARGS,
       save_args |-> IF a.save_args # None
                     THEN DictUpdate(DEFAULT_SAVE_ARGS, a.save_args.items)
                     ELSE DEFAULT_SAVE_ARGS,
       version   |-> a.version,
       s3        |-> [client_kwargs |-> OrEmpty(a.credentials),
                      s3fs_args     |-> OrEmpty(a.s3fs_args)] ]

\* A faulty variant of _describe: the storage client's options are described too.
Describe_WithClient(ds) ==
  [ filepath    |-> ds.filepath,
    key         |-> ds.key,
    load_args   |-> ds.load_args,
    save_args   |-> ds.save_args,
    version     |-> ds.version,
    credentials |-> ds.s3.client_kwargs ]

\* HDFS3DataSet._describe
Describe(ds) ==
  [ filepath  |-> ds.filepath,
    key       |-> ds.key,
    load_args |-> ds.load_args,
    save_args |-> ds.save_args,
    version   |-> ds.version ]

\* ------------------------------------------------------------ tables
\* The DataFrame of the class's example, and one with the columns in the
\* other order.
T1 ==
  [ type    |-> "DataFrame",
    columns |-> <<"col1", "col2", "col3">>,
    index   |-> <<0, 1>>,
    values  |-> <<<<1, 4, 5>>, <<2, 5, 6>>>> ]

T2 ==
  [ type    |-> "DataFrame",
    columns |-> <<"col3", "col1", "col2">>,
    index   |-> <<0, 1>>,
    values  |-> <<<<5, 1, 4>>, <<6, 2, 5>>>> ]

Tables == {T1, T2}

\* What a caller may hand to save(): a table, or something that is none.
NotTabular == [type |-> "str"]

SaveInputs == Tables \cup {NotTabular}

\* ------------------------------------------------------------ HDFStore
\* The path of the node pandas keeps a key under: HDFStore.put and
\* HDFStore.get prefix a key that has no leading separator.
NodePath(key) ==
  IF StartsWith(key, <<SLASH>>) THEN key ELSE <<SLASH>> \o key

\* A faulty variant of HDFStoreModeW: mode="a" over the bytes already at the path.
HDFStoreModeA(existing) ==
  IF existing # None /\ existing.valid THEN existing.nodes ELSE <<>>

\* pd.HDFStore(mode="w", driver="H5FD_CORE", driver_core_backing_store=0):
\* a store with no node, whatever object `existing` is at the save path.
HDFStoreModeW(existing) == <<>>

\* store.put(key, data, format="table")
StorePut(nodes, key, data) ==
  [k \in DOMAIN nodes \cup {NodePath(key)} |->
     IF k = NodePath(key) THEN data ELSE nodes[k]]

\* A faulty variant of GetFileImage: the image of a store without its nodes.
GetFileImage_Empty(nodes) ==
  [type |-> "bytes", valid |-> TRUE, nodes |-> <<>>]

\* store._handle.get_file_image(): the bytes of the whole store.
GetFileImage(nodes) ==
  [type |-> "bytes", valid |-> TRUE, nodes |-> nodes]

\* Bytes that are no HDF5 image.
Garbage == [type |-> "bytes", valid |-> FALSE, nodes |-> <<>>]

\* store.keys()
StoreKeys(nodes) == DOMAIN nodes

\* A faulty variant of WithExit: the handle stays open.
WithExit_Leak(handles, h) == handles

\* The end of a `with` block, reached normally or by an exception: the
\* handle the block acquired is closed.
WithExit(handles, h) == handles \ {h}

\* ------------------------------------------------------------ versioning
\* The versions of the dataset's file path that hold an object
\* (glob_function and exists_function, given to the versioning helper).
ExistingVersions(store) == {v \in VersionIds : store[v] # None}

Max(S) == CHOOSE x \in S : \A y \in S : y <= x

\* _get_load_path(): the caller-specified load version, or the most recent
\* existing one; NoVersion when there is none (VersionNotFoundError).
GetLoadPath(ds, store) ==
  IF ds.version.load # NoVersion THEN ds.version.load
  ELSE IF ExistingVersions(store) = {} THEN NoVersion
       ELSE Max(ExistingVersions(store))

\* generate_timestamp(): later than every identifier generated before.
GenerateTimestamp(now) == now + 1

\* _get_save_path(): the caller-specified save version, or a fresh one.
GetSavePath(ds, now) ==
  IF ds.version.save # NoVersion THEN ds.version.save
  ELSE GenerateTimestamp(now)

\* ------------------------------------------------------------ state
VARIABLES
  ctor,      \* the arguments __init__ was called with
  self,      \* the dataset's fields
  remote,    \* the bucket: version of the file path -> object, or None
  clock,     \* the latest version identifier generated
  pc,        \* where the running operation is; "idle" between operations
  path,      \* load_path / save_path of the running operation
  data,      \* the argument of the running save()
  buf,       \* binary_data
  store,     \* the nodes of the open in-memory HDFStore
  handles,   \* the open handles: "s3_file", "store"
  ret,       \* how the last operation ended
  pre,       \* the bucket when the last operation began
  prevPath,  \* the save path the previous save() resolved
  lastSave,  \* path and data of the last save() that succeeded, or None
             \* once another writer has written since
  foreign,   \* the writes of other writers so far
  written    \* the versions an object was ever written at

vars ==
  << ctor, self, remote, clock, pc, path, data, buf, store, handles, ret,
     pre, prevPath, lastSave, foreign, written >>

locals == << path, data, buf, store >>

history == << prevPath, lastSave, foreign, written >>

\* ------------------------------------------------------------ inputs
Str_f        == <<"f">>
Str_a_f      == <<"a", "/", "f">>
Str_s3_a_f   == S3_PROTOCOL \o <<"a", "/", "f">>
Str_s3_a__f  == S3_PROTOCOL \o <<"a", "/", "/", "f">>
Str_s3_a_d_f == S3_PROTOCOL \o <<"a", "/", ".", "/", "f">>
Str_s3_a_f_  == S3_PROTOCOL \o <<"a", "/", "f", "/">>
Str_s3__f    == S3_PROTOCOL \o <<"/", "f">>

FilePaths ==
  { Str_f, Str_a_f, Str_s3_a_f, Str_s3_a__f, Str_s3_a_d_f, Str_s3_a_f_,
    Str_s3__f }

\* bucket_name: None and "" are both <<>>, the code tests its truth only.
BucketNames == { <<>>, <<"b">> }

Keys == { <<"k">>, <<"/", "k">> }

Dict(items) == [type |-> "dict", items |-> items]

CredentialsSet ==
  { None, Dict([aws_secret_access_key |-> "SECRET1"]),
          Dict([aws_secret_access_key |-> "SECRET2"]) }

ArgsSet == { None, Dict([complevel |-> 9]) }

\* Caller-specified version identifiers.
PinnedVersions == {1, 2}

Versions ==
  [ load : PinnedVersions \cup {NoVersion},
    save : PinnedVersions \cup {NoVersion} ]

CtorArgs(filepaths, buckets, credentials, args) ==
  [ filepath    : filepaths,
    key         : Keys,
    bucket_name : buckets,
    credentials : credentials,
    load_args   : args,
    save_args   : args,
    version     : Versions,
    s3fs_args   : {None} ]

\* Objects other writers put into the bucket: bytes that are no image, an
\* image with another key, an image with the dataset's key and another one.
ForeignObjects ==
  { Garbage,
    GetFileImage(StorePut(<<>>, <<"j">>, T2)),
    GetFileImage(StorePut(StorePut(<<>>, <<"k">>, T1), <<"j">>, T2)) }

\* The writes of other writers a behaviour holds at most.
MaxForeign == 1

\* ------------------------------------------------------------ results
Bool(b) == [type |-> "bool", v |-> b]

Result(op, status, value, p) ==
  [op |-> op, status |-> status, value |-> value, path |-> p]

NoResult == Result("none", "none", None, NoVersion)

\* The operation is over: its result is kept, its locals are gone.
Return(op, status, value) ==
  /\ pc' = "idle"
  /\ ret' = Result(op, status, value, path)
  /\ path' = NoVersion
  /\ data' = None
  /\ buf' = None
  /\ store' = <<>>

InitWith(args) ==
  /\ ctor \in args
  /\ self = Construct(ctor)
  /\ remote = [v \in VersionIds |-> None]
  /\ clock = 0
  /\ pc = "idle"
  /\ path = NoVersion
  /\ data = None
  /\ buf = None
  /\ store = <<>>
  /\ handles = {}
  /\ ret = NoResult
  /\ pre = remote
  /\ prevPath = NoVersion
  /\ lastSave = None
  /\ foreign = 0
  /\ written = {}

\* The dataset of the class's example, under every version selector.
Init == InitWith(CtorArgs({Str_s3_a_f}, {<<"b">>}, {None}, {None}))

\* Every way of constructing the dataset.
InitAny == InitWith(CtorArgs(FilePaths, BucketNames, CredentialsSet, ArgsSet))

\* ------------------------------------------------------------ describe()
DoDescribe ==
  /\ pc = "idle"
  /\ pre' = remote
  /\ pc' = "idle"
  /\ ret' = Result("describe", "ok", Describe(self), NoVersion)
  /\ UNCHANGED << ctor, self, remote, clock, locals, handles, history >>

\* ------------------------------------------------------------ load()
\* load_path = self._get_load_path()
LoadBegin ==
  /\ pc = "idle"
  /\ pre' = remote
  /\ LET p == GetLoadPath(self, remote)
     IN IF p = NoVersion
        THEN /\ pc' = "idle"
             /\ ret' = Result("load", "VersionNotFoundError", None, NoVersion)
             /\ UNCHANGED path
        ELSE /\ pc' = "load_open"
             /\ path' = p
             /\ ret' = NoResult
  /\ UNCHANGED << ctor, self, remote, clock, data, buf, store, handles,
                  history >>

\* with self._s3.open(str(load_path), mode="rb") as s3_file:
LoadOpen ==
  /\ pc = "load_open"
  /\ IF remote[path] = None
     THEN /\ Return("load", "FileNotFoundError", None)
          /\ UNCHANGED handles
     ELSE /\ pc' = "load_read"
          /\ handles' = handles \cup {"s3_file"}
          /\ UNCHANGED << ret, locals >>
  /\ UNCHANGED << ctor, self, remote, clock, pre, history >>

\* binary_data = s3_file.read(), and the end of the with block
LoadRead ==
  /\ pc = "load_read"
  /\ buf' = remote[path]
  /\ handles' = WithExit(handles, "s3_file")
  /\ pc' = "load_store"
  /\ UNCHANGED << ctor, self, remote, clock, path, data, store, ret, pre,
                  history >>

\* with pd.HDFStore(..., mode="r", driver_core_image=binary_data) as store:
LoadStore ==
  /\ pc = "load_store"
  /\ IF buf.valid
     THEN /\ pc' = "load_get"
          /\ store' = buf.nodes
          /\ handles' = handles \cup {"store"}
          /\ UNCHANGED << ret, path, data, buf >>
     ELSE /\ Return("load", "HDF5ExtError", None)
          /\ UNCHANGED handles
  /\ UNCHANGED << ctor, self, remote, clock, pre, history >>

\* A faulty variant of LoadGet: a key that is absent yields an empty result.
LoadGet_Default ==
  /\ pc = "load_get"
  /\ IF NodePath(self.key) \in StoreKeys(store)
     THEN Return("load", "ok", store[NodePath(self.key)])
     ELSE Return("load", "ok", None)
  /\ handles' = WithExit(handles, "store")
  /\ UNCHANGED << ctor, self, remote, clock, pre, history >>

\* return store[self._key], and the end of the with block
LoadGet ==
  /\ pc = "load_get"
  /\ IF NodePath(self.key) \in StoreKeys(store)
     THEN Return("load", "ok", store[NodePath(self.key)])
     ELSE Return("load", "KeyError", None)
  /\ handles' = WithExit(handles, "store")
  /\ UNCHANGED << ctor, self, remote, clock, pre, history >>

\* ------------------------------------------------------------ exists()
\* exists() when no version of the dataset is found: the answer is False.
ExistsOnVersionNotFound == Result("exists", "ok", Bool(FALSE), NoVersion)

\* load_path = str(self._get_load_path())
ExistsBegin ==
  /\ pc = "idle"
  /\ pre' = remote
  /\ LET p == GetLoadPath(self, remote)
     IN IF p = NoVersion
        THEN /\ pc' = "idle"
             /\ ret' = ExistsOnVersionNotFound
             /\ UNCHANGED path
        ELSE /\ pc' = "exists_isfile"
             /\ path' = p
             /\ ret' = NoResult
  /\ UNCHANGED << ctor, self, remote, clock, data, buf, store, handles,
                  history >>

\* if self._s3.isfile(load_path): ... return False
ExistsIsFile ==
  /\ pc = "exists_isfile"
  /\ IF remote[path] # None
     THEN /\ pc' = "exists_open"
          /\ UNCHANGED << ret, locals >>
     ELSE Return("exists", "ok", Bool(FALSE))
  /\ UNCHANGED << ctor, self, remote, clock, handles, pre, history >>

\* with self._s3.open(load_path, mode="rb") as s3_file:
ExistsOpen ==
  /\ pc = "exists_open"
  /\ IF remote[path] = None
     THEN /\ Return("exists", "FileNotFoundError", None)
          /\ UNCHANGED handles
     ELSE /\ pc' = "exists_read"
          /\ handles' = handles \cup {"s3_file"}
          /\ UNCHANGED << ret, locals >>
  /\ UNCHANGED << ctor, self, remote, clock, pre, history >>

\* A faulty variant of ExistsRead: the stream was opened for writing, which
\* leaves an empty object behind.
ExistsRead_Truncate ==
  /\ pc = "exists_read"
  /\ buf' = remote[path]
  /\ remote' = [remote EXCEPT ![path] = Garbage]
  /\ handles' = WithExit(handles, "s3_file")
  /\ pc' = "exists_store"
  /\ UNCHANGED << ctor, self, clock, path, data, store, ret, pre, history >>

\* binary_data = s3_file.read(), and the end of the with block
ExistsRead ==
  /\ pc = "exists_read"
  /\ buf' = remote[path]
  /\ handles' = WithExit(handles, "s3_file")
  /\ pc' = "exists_store"
  /\ UNCHANGED << ctor, self, remote, clock, path, data, store, ret, pre,
                  history >>

\* with pd.HDFStore(..., mode="r", driver_core_image=binary_data) as store:
ExistsStore ==
  /\ pc = "exists_store"
  /\ IF buf.valid
     THEN /\ pc' = "exists_keys"
          /\ store' = buf.nodes
          /\ handles' = handles \cup {"store"}
          /\ UNCHANGED << ret, path, data, buf >>
     ELSE /\ Return("exists", "HDF5ExtError", None)
          /\ UNCHANGED handles
  /\ UNCHANGED << ctor, self, remote, clock, pre, history >>

\* return key_with_slash in store.keys(), and the end of the with block
ExistsKeys ==
  /\ pc = "exists_keys"
  /\ Return("exists", "ok", Bool(key_with_slash(self.key) \in StoreKeys(store)))
  /\ handles' = WithExit(handles, "store")
  /\ UNCHANGED << ctor, self, remote, clock, pre, history >>

\* ------------------------------------------------------------ save(data)
\* A faulty variant of SaveBegin: the save path is the version saved before.
SaveBegin_SamePath(d) ==
  /\ pc = "idle"
  /\ self.version.save = NoVersion => clock < MaxVersion
  /\ pre' = remote
  /\ data' = d
  /\ path' = IF prevPath # NoVersion THEN prevPath ELSE GetSavePath(self, clock)
  /\ clock' = IF self.version.save = NoVersion
              THEN GenerateTimestamp(clock) ELSE clock
  /\ pc' = "save_store"
  /\ ret' = NoResult
  /\ UNCHANGED << ctor, self, remote, buf, store, handles, history >>

\* save_path = str(self._get_save_path())
SaveBegin(d) ==
  /\ pc = "idle"
  /\ self.version.save = NoVersion => clock < MaxVersion
  /\ pre' = remote
  /\ data' = d
  /\ path' = GetSavePath(self, clock)
  /\ clock' = IF self.version.save = NoVersion
              THEN GenerateTimestamp(clock) ELSE clock
  /\ pc' = "save_store"
  /\ ret' = NoResult
  /\ UNCHANGED << ctor, self, remote, buf, store, handles, history >>

\* with pd.HDFStore(str(self._filepath), mode="w", ...) as store:
SaveStore ==
  /\ pc = "save_store"
  /\ store' = HDFStoreModeW(remote[path])
  /\ handles' = handles \cup {"store"}
  /\ pc' = "save_put"
  /\ UNCHANGED << ctor, self, remote, clock, path, data, buf, ret, pre,
                  history >>

\* A faulty variant of SavePut: the remote stream was opened first, and closing
\* it after the failure leaves an empty object at the save path.
SavePut_StreamFirst ==
  /\ pc = "save_put"
  /\ IF data.type = "DataFrame"
     THEN /\ store' = StorePut(store, self.key, data)
          /\ pc' = "save_image"
          /\ UNCHANGED << ret, path, data, buf, handles, prevPath, remote >>
     ELSE /\ Return("save", "TypeError", None)
          /\ remote' = [remote EXCEPT ![path] = Garbage]
          /\ handles' = WithExit(handles, "store")
          /\ prevPath' = path
  /\ UNCHANGED << ctor, self, clock, pre, lastSave, foreign, written >>

\* store.put(self._key, data, format="table"); data that is no table
\* raises, and the with block ends.
SavePut ==
  /\ pc = "save_put"
  /\ IF data.type = "DataFrame"
     THEN /\ store' = StorePut(store, self.key, data)
          /\ pc' = "save_image"
          /\ UNCHANGED << ret, path, data, buf, handles, prevPath >>
     ELSE /\ Return("save", "TypeError", None)
          /\ handles' = WithExit(handles, "store")
          /\ prevPath' = path
  /\ UNCHANGED << ctor, self, remote, clock, pre, lastSave, foreign,
                  written >>

\* binary_data = store._handle.get_file_image(), and the end of the block
SaveImage ==
  /\ pc = "save_image"
  /\ buf' = GetFileImage(store)
  /\ handles' = WithExit(handles, "store")
  /\ pc' = "save_open"
  /\ UNCHANGED << ctor, self, remote, clock, path, data, store, ret, pre,
                  history >>

\* with self._s3.open(save_path, mode="wb") as s3_file: the bucket grants
\* the write or refuses it.
SaveOpen ==
  /\ pc = "save_open"
  /\ \E granted \in BOOLEAN :
       IF granted
       THEN /\ pc' = "save_write"
            /\ handles' = handles \cup {"s3_file"}
            /\ UNCHANGED << ret, locals, prevPath >>
       ELSE /\ Return("save", "PermissionError", None)
            /\ prevPath' = path
            /\ UNCHANGED handles
  /\ UNCHANGED << ctor, self, remote, clock, pre, lastSave, foreign,
                  written >>

\* s3_file.write(binary_data), and the end of the with block, which puts
\* the object.
SaveWrite ==
  /\ pc = "save_write"
  /\ remote' = [remote EXCEPT ![path] = buf]
  /\ handles' = WithExit(handles, "s3_file")
  /\ Return("save", "ok", None)
  /\ prevPath' = path
  /\ lastSave' = [type |-> "saved", path |-> path, data |-> data]
  /\ written' = written \cup {path}
  /\ UNCHANGED << ctor, self, clock, pre, foreign >>

\* ------------------------------------------------------------ environment
\* Another writer puts an object at a version of the file path.  The
\* dataset makes one remote read or write per operation and nothing is
\* ever deleted, so a write during an operation acts as one before or
\* after it.
OtherWriter(v, obj) ==
  /\ pc = "idle"
  /\ foreign < MaxForeign
  /\ remote' = [remote EXCEPT ![v] = obj]
  /\ foreign' = foreign + 1
  /\ lastSave' = None
  /\ written' = written \cup {v}
  /\ ret' = Result("put", "ok", None, v)
  /\ pre' = remote
  /\ UNCHANGED << ctor, self, clock, pc, locals, handles, prevPath >>

\* ------------------------------------------------------------ behaviours
Next ==
  \/ DoDescribe
  \/ LoadBegin
  \/ LoadOpen
  \/ LoadRead
  \/ LoadStore
  \/ LoadGet
  \/ ExistsBegin
  \/ ExistsIsFile
  \/ ExistsOpen
  \/ ExistsRead
  \/ ExistsStore
  \/ ExistsKeys
  \/ \E d \in SaveInputs : SaveBegin(d)
  \/ SaveStore
  \/ SavePut
  \/ SaveImage
  \/ SaveOpen
  \/ SaveWrite
  \/ \E v \in VersionIds, obj \in ForeignObjects : OtherWriter(v, obj)

Spec == Init /\ [][Next]_vars

\* Construction alone, over every way of constructing the dataset.
SpecConstruct == InitAny /\ [][DoDescribe]_vars

\* ------------------------------------------------------------ properties
Idle == pc = "idle"

LoadPcs == {"load_open", "load_read", "load_store", "load_get"}

ExistsPcs ==
  {"exists_isfile", "exists_open", "exists_read", "exists_store",
   "exists_keys"}

SavePcs == {"save_store", "save_put", "save_image", "save_open", "save_write"}

\* The version selector names neither a load nor a save version.
Unspecified ==
  /\ self.version.load = NoVersion
  /\ self.version.save = NoVersion

\* A load() has just ended.
Loaded == Idle /\ ret.op = "load"

\* An exists() has just ended.
Checked == Idle /\ ret.op = "exists"

\* A save() has just ended.
Saved == Idle /\ ret.op = "save"

\* The configured key, as the store names its node.
SelfNode == NodePath(self.key)

\* C1 as stated: after a save(T) that succeeded and no other write since,
\* load() returns T, whatever the version selector.
C1_RoundTrip_AnySelector ==
  (Loaded /\ lastSave # None) =>
    (ret.status = "ok" /\ ret.value = lastSave.data)

\* C1: after a save(T) that succeeded and no other write since, a load()
\* that resolves the path save() wrote returns a table equal to T: the same
\* columns in the same order, the same index, the same values.
C1_RoundTrip ==
  (Loaded /\ lastSave # None /\ ret.path = lastSave.path) =>
    /\ ret.status = "ok"
    /\ ret.value = lastSave.data
    /\ ret.value.columns = lastSave.data.columns
    /\ ret.value.index = lastSave.data.index
    /\ ret.value.values = lastSave.data.values

\* Round trip of the table whose columns are not in sorted order, under a
\* key the store renames.
C1_Witness ==
  /\ Loaded
  /\ lastSave # None
  /\ ret.path = lastSave.path
  /\ ret.status = "ok"
  /\ ret.value = T2
  /\ self.key = <<"k">>

\* C2: exists() returns False when nothing was ever written at the version
\* it resolves (or there is no version to resolve), and True when it
\* resolves the version a save() that succeeded wrote, no other writer
\* having written since.
C2_ExistsBeforeAndAfterSave ==
  /\ (Checked /\ ret.path \notin written) =>
       (ret.status = "ok" /\ ret.value = Bool(FALSE))
  /\ (Checked /\ lastSave # None /\ ret.path = lastSave.path) =>
       (ret.status = "ok" /\ ret.value = Bool(TRUE))

\* exists() is True after a save under a key without a leading separator,
\* at a version where it was False before.
C2_Witness ==
  /\ Checked
  /\ lastSave # None
  /\ ret.path = lastSave.path
  /\ ret.value = Bool(TRUE)
  /\ self.key = <<"k">>
  /\ self.version.load # NoVersion

NotFoundErrors == {"VersionNotFoundError", "FileNotFoundError"}

FormatErrors == {"HDF5ExtError", "KeyError"}

\* The object at the path the last operation resolved, None without one.
Resolved == IF ret.path = NoVersion THEN None ELSE remote[ret.path]

HasKey(obj) == obj.valid /\ SelfNode \in StoreKeys(obj.nodes)

\* C4: load() returns a table only when an object is at the resolved load
\* path and its image holds the configured key; with no such object it
\* fails with a not-found error; with an object that is no image, or an
\* image without the key, it fails with a format error; a load() that
\* fails returns no data.
C4_LoadOutcomes ==
  Loaded =>
    /\ ret.status = "ok" =>
         /\ Resolved # None
         /\ HasKey(Resolved)
         /\ ret.value = Resolved.nodes[SelfNode]
    /\ Resolved = None => ret.status \in NotFoundErrors
    /\ (Resolved # None /\ ~HasKey(Resolved)) => ret.status \in FormatErrors
    /\ ret.status # "ok" => ret.value = None

\* load() of an image that holds only another key.
C4_Witness ==
  /\ Loaded
  /\ ret.status = "KeyError"
  /\ Resolved # None
  /\ Resolved.valid
  /\ StoreKeys(Resolved.nodes) = {<<"/", "j">>}

\* The path with the protocol prefix taken off, and nothing else changed.
WithoutProtocol(p) ==
  IF StartsWith(p, S3_PROTOCOL)
  THEN SubSeq(p, Len(S3_PROTOCOL) + 1, Len(p))
  ELSE p

\* "B/<path without its protocol prefix>", or the path alone with no bucket.
BucketSlashPath ==
  IF ctor.bucket_name # <<>>
  THEN ctor.bucket_name \o <<SLASH>> \o WithoutProtocol(ctor.filepath)
  ELSE WithoutProtocol(ctor.filepath)

\* C5 as stated: the stored path is the string "B/<stripped path>", or the
\* stripped path with no bucket name.
C5_PathIsConcatenation ==
  (StartsWith(ctor.filepath, S3_PROTOCOL) \/ ctor.bucket_name = <<>>) =>
    self.filepath = BucketSlashPath

\* A path in the form PurePosixPath prints: one or two leading separators
\* or none, then components that are neither empty nor ".", with no
\* trailing separator; "." alone for the empty path.
IsNormalPath(p) ==
  LET rest  == SubSeq(p, Len(PosixRoot(p)) + 1, Len(p))
      parts == SplitSlash(rest, <<>>)
  IN /\ p # <<>>
     /\ ~StartsWith(p, <<SLASH, SLASH, SLASH>>)
     /\ \/ p = <<".">>
        \/ rest = <<>>
        \/ \A i \in 1..Len(parts) : parts[i] # <<>> /\ parts[i] # <<".">>

\* C5: the stored path is "B/<stripped path>" (the stripped path with no
\* bucket name) in normal form: repeated separators collapsed, "."
\* components and trailing separators dropped; it is that very string when
\* the string is in normal form already.
C5_PathIsNormalizedConcatenation ==
  /\ IsNormalPath(self.filepath)
  /\ PosixRoot(self.filepath) = PosixRoot(BucketSlashPath)
  /\ KeepParts(SplitSlash(self.filepath, <<>>))
       = KeepParts(SplitSlash(BucketSlashPath, <<>>))
  /\ IsNormalPath(BucketSlashPath) => self.filepath = BucketSlashPath

\* A bucket name and a prefixed path with a repeated separator.
C5_Witness ==
  /\ ctor.bucket_name = <<"b">>
  /\ ctor.filepath = Str_s3_a__f
  /\ self.filepath = <<"b", "/", "a", "/", "f">>

DescribedFields == {"filepath", "key", "load_args", "save_args", "version"}

\* C6: describe() returns the five fields filepath, key, load_args,
\* save_args and version and no other, and the mapping is the same
\* whatever credentials the constructor was given.
C6_DescribeFieldsNoCredentials ==
  (Idle /\ ret.op = "describe") =>
    /\ DOMAIN ret.value = DescribedFields
    /\ \A c \in CredentialsSet :
         ret.value = Describe(Construct([ctor EXCEPT !.credentials = c]))
    /\ \A c \in CredentialsSet, f \in {"load_args", "save_args"} :
         c # None =>
           \A o \in DOMAIN c.items : o \notin DOMAIN ret.value[f]

\* describe() of a dataset constructed with credentials and options.
C6_Witness ==
  /\ Idle
  /\ ret.op = "describe"
  /\ ctor.credentials # None
  /\ ctor.load_args # None
  /\ self.s3.client_kwargs = ctor.credentials

\* C7: between operations the dataset holds no open handle, whether the
\* last operation returned or raised; during an operation it holds at most
\* the one handle of the block it is in.
C7_NoHandleBetweenOperations ==
  /\ Idle => handles = {}
  /\ Cardinality(handles) <= 1

\* A save() that raised inside the block of the in-memory store.
C7_Witness ==
  /\ Saved
  /\ ret.status = "TypeError"
  /\ handles = {}

\* C8: after a save() that succeeded, the object at the resolved save path
\* is an image with the configured key and no other, holding the saved
\* table.
C8_SaveOverwrites ==
  (Saved /\ ret.status = "ok") =>
    /\ remote[ret.path] # None
    /\ remote[ret.path].valid
    /\ StoreKeys(remote[ret.path].nodes) = {SelfNode}
    /\ remote[ret.path].nodes[SelfNode] = lastSave.data

\* A save() over an object that held the key and a sibling key.
C8_Witness ==
  /\ Saved
  /\ ret.status = "ok"
  /\ pre[ret.path] # None
  /\ pre[ret.path].valid
  /\ StoreKeys(pre[ret.path].nodes) = {<<"/", "k">>, <<"/", "j">>}
  /\ StoreKeys(remote[ret.path].nodes) = {SelfNode}

\* C9: load(), exists() and describe() leave the bucket as it was when they
\* began, at every step and when they end, returning or raising; and the
\* dataset's fields are at all times those the constructor set.
C9_ReadOperationsChangeNothing ==
  /\ pc \in LoadPcs \cup ExistsPcs => remote = pre
  /\ (Idle /\ ret.op \in {"load", "exists", "describe"}) => remote = pre
  /\ self = Construct(ctor)

\* An exists() that read an object of the bucket and answered True.
C9_Witness ==
  /\ Checked
  /\ ret.value = Bool(TRUE)
  /\ remote = pre
  /\ remote[ret.path] # None

\* C10: save() opens the remote write stream only with the complete image
\* in hand, and the bucket is as it was until the stream is written; a
\* save() that fails while serializing leaves the bucket unchanged.
C10_FailedSaveWritesNothing ==
  /\ (pc \in SavePcs /\ "s3_file" \in handles) =>
       (buf # None /\ buf = GetFileImage(StorePut(<<>>, self.key, data)))
  /\ pc \in SavePcs => remote = pre
  /\ (Saved /\ ret.status = "TypeError") => remote = pre

\* A save() of data that is no table, at a path that holds an object.
C10_Witness ==
  /\ Saved
  /\ ret.status = "TypeError"
  /\ pre[ret.path] # None
  /\ remote[ret.path] = pre[ret.path]

====
